---- MODULE Spec2Model ----
(***************************************************************************)
(* HOG descriptor extraction (HOG.hpp / HOG.cpp) as a state machine.       *)
(*                                                                         *)
(* A session is one HOG object: its immutable configuration, the gradient  *)
(* maps mag / ori, the grid dimensions and the cached cell histograms.     *)
(* The operations are the constructor, process(img) and retrieve(window).  *)
(*                                                                         *)
(* Representation choices:                                                 *)
(*  - TType (float) values are held in thousandths, rounded toward zero;   *)
(*    1.0 is 1000.  HOG::epsilon (1e-6) is one millionth, i.e. exactly 1   *)
(*    in the unit of a sum of squares of thousandths.                      *)
(*  - a size_t value s is held as the integer r with r = s when s < 2^63   *)
(*    and r = s - 2^64 otherwise, so + and - are the 64-bit modular ones   *)
(*    for the small magnitudes that occur; comparisons are the unsigned    *)
(*    ones (ULt, ULe).                                                     *)
(*  - an image is given by the two maps cv::filter2D/magnitude/phase       *)
(*    derive from it (OpenCV is outside the repository); orientations are  *)
(*    whole degrees in [0, 360).                                           *)
(*  - cv::Rect extents (width, height) are non-negative; origins are any   *)
(*    integers.                                                            *)
(***************************************************************************)
EXTENDS Integers, Sequences, FiniteSets, TLC

VARIABLES cfg, mag, ori, n_cells_y, n_cells_x, cell_hists,
          last, processed, probe

vars == <<cfg, mag, ori, n_cells_y, n_cells_x, cell_hists,
          last, processed, probe>>

session == <<cfg, mag, ori, n_cells_y, n_cells_x, cell_hists>>

(***************************************************************************)
(* Program constants                                                       *)
(***************************************************************************)
GRADIENT_SIGNED == 360
GRADIENT_UNSIGNED == 180
\* one in thousandths
One == 10 * 10 * 10
\* the clip level 0.2 of L2hys in thousandths
ClipHi == 200

NormNames == {"L1norm", "L1sqrt", "L2norm", "L2hys", "none"}

(***************************************************************************)
(* Bounds of the model                                                     *)
(***************************************************************************)
\* largest image side, in pixels
MaxDim == 3
\* window origins range over -MaxNeg .. 1
MaxNeg == 2
\* largest constructor arguments of the construction specification
MaxBlock == 4
MaxCell == 2
MaxStride == 2
MaxCtorBin == 3
\* largest bin count of the bin-index specification
MaxBin == 9
\* rows and columns of the images of the block-scan specification
MaxScanDim == 4
\* the batch driver's crop size (256 x 128 pixels in main), in units of
\* its cellsize
crop_height == 3
crop_width == 2
\* iterations after which a block loop of retrieve is known not to end:
\* a loop that ends does so within (window extent in cells) iterations, a
\* loop that runs past the grid faults at the first cell outside it.
Fuel == 12

(***************************************************************************)
(* size_t and int arithmetic                                               *)
(***************************************************************************)
\* a < b and a <= b on size_t
ULt(a, b) == IF (a < 0) = (b < 0) THEN a < b ELSE a >= 0

\* a loop that stops before its bound: block_x < x + width - n
ULeExclusive(a, b) == ULt(a, b)

ULe(a, b) == a = b \/ ULt(a, b)

Base16 == 2 ^ 16

\* static_cast<int>(v / d) for an int v and a size_t d >= 1: v is converted
\* to size_t (2^64 + v when negative), the division is the unsigned one and
\* the cast keeps the low 32 bits as a signed value.  For v < 0 the
\* quotient of 2^64 + v is worked out digit by digit in base 2^16.
DivToInt(v, d) ==
  IF v >= 0 THEN v \div d
  ELSE LET d3 == Base16 - 1
           d0 == Base16 + v
           r3 == d3 % d
           c2 == r3 * Base16 + d3
           r2 == c2 % d
           c1 == r2 * Base16 + d3
           q1 == c1 \div d
           r1 == c1 % d
           c0 == r1 * Base16 + d0
           q0 == c0 \div d
       IN  IF q1 >= Base16 \div 2 THEN (q1 - Base16) * Base16 + q0
                                  ELSE q1 * Base16 + q0

(***************************************************************************)
(* Floating point helpers (thousandths)                                    *)
(***************************************************************************)
RECURSIVE SumSeq(_)
SumSeq(s) == IF s = <<>> THEN 0 ELSE Head(s) + SumSeq(Tail(s))

RECURSIVE SqrtBetween(_, _, _)
SqrtBetween(n, lo, hi) ==
  IF lo >= hi THEN lo
  ELSE LET mid == (lo + hi + 1) \div 2
       IN  IF mid * mid <= n THEN SqrtBetween(n, mid, hi)
                             ELSE SqrtBetween(n, lo, mid - 1)

\* floor of the square root, n < 2^31
ISqrt(n) == SqrtBetween(n, 0, 46340)

\* std::sqrt of a value in thousandths, in thousandths
SqrtMilli(x) == ISqrt(One * x)

\* a / (s + epsilon) in thousandths, for a, s >= 0 in thousandths and
\* a <= s: the quotient lies just below a / s.  s + epsilon is never 0.
DivEps(a, s) ==
  IF a = 0 THEN 0
  ELSE IF (One * a) % s = 0 THEN (One * a) \div s - 1
  ELSE (One * a) \div s

(***************************************************************************)
(* Block normalization functions                                           *)
(***************************************************************************)
\* the result of a float division 0 / 0
NaN == 0 - 1

\* den = sum(v) + epsilon; den is not 0, so every element is divided
L1normNoEpsilon(v) ==
  LET den == SumSeq(v)
  IN  [i \in 1..Len(v) |-> IF den = 0 THEN NaN ELSE (One * v[i]) \div den]

L1norm(v) ==
  LET sum == SumSeq(v)
  IN  [i \in 1..Len(v) |-> DivEps(v[i], sum)]

L1sqrt(v) ==
  LET w == L1norm(v)
  IN  [i \in 1..Len(w) |-> SqrtMilli(w[i])]

\* den = sqrt(sum(v^2) + epsilon), at least sqrt(epsilon) = 0.001
L2norm(v) ==
  LET temp == [i \in 1..Len(v) |-> v[i] * v[i]]
      den  == ISqrt(SumSeq(temp) + 1)
  IN  IF den # 0 THEN [i \in 1..Len(v) |-> (One * v[i]) \div den] ELSE v

clip(x) == IF x > ClipHi THEN ClipHi ELSE IF x < 0 THEN 0 ELSE x

L2hys(v) ==
  LET w == L2norm(v)
      c == [i \in 1..Len(w) |-> clip(w[i])]
  IN  L2norm(c)

none(v) == v

\* _block_norm(block_hist): the configured function, applied to the block
block_norm(name, v) ==
  CASE name = "L1norm" -> L1norm(v)
    [] name = "L1sqrt" -> L1sqrt(v)
    [] name = "L2norm" -> L2norm(v)
    [] name = "L2hys"  -> L2hys(v)
    [] OTHER           -> none(v)

(***************************************************************************)
(* Construction                                                            *)
(***************************************************************************)
check_ctor_params(blocksize, cellsize, stride, binning, grad_type) ==
  IF blocksize < 2 THEN "ConfigInvalid"
  ELSE IF cellsize < 1 THEN "ConfigInvalid"
  ELSE IF binning < 2 THEN "ConfigInvalid"
  ELSE IF grad_type # GRADIENT_UNSIGNED /\ grad_type # GRADIENT_SIGNED
       THEN "ConfigInvalid"
  ELSE IF blocksize % cellsize # 0 THEN "ConfigInvalid"
  ELSE IF stride % cellsize # 0 THEN "ConfigInvalid"
  ELSE "ok"

\* The member initializers run before the constructor body, in declaration
\* order: _bin_width(_grad_type / _binning), then the default initializers
\* _blocksize / _cellsize and _stride / _cellsize.  A zero divisor there is
\* an integer division by zero (undefined: a trap, or any quotient).
MemberInitDividesByZero(p) == p.binning = 0 \/ p.cellsize = 0

\* The outcomes of HOG::HOG(blocksize, cellsize, stride, binning, grad_type)
HOG_ctor(p) ==
  LET checked == check_ctor_params(p.blocksize, p.cellsize, p.stride,
                                   p.binning, p.grad_type)
  IN  IF MemberInitDividesByZero(p) THEN {"Fault", checked} ELSE {checked}

\* the derived const members
bin_width(c) == c.grad_type \div c.binning
n_cells_per_block(c) == c.blocksize \div c.cellsize
block_hist_size(c) == c.binning * n_cells_per_block(c) * n_cells_per_block(c)
stride_unit(c) == c.stride \div c.cellsize

(***************************************************************************)
(* Images: the magnitude and orientation maps of magnitude_and_orientation *)
(***************************************************************************)
\* orientations of the textured pattern, in degrees
OriCycle == <<10, 100, 200, 300>>
\* the orientation of the pixel in row 3, column 1 of the textured pattern
OriEdge == GRADIENT_SIGNED - 1

\* a flat image has no gradient: magnitude 0 and phase 0 everywhere
PixelMag(pattern, i, j) ==
  IF pattern = "flat" THEN 0 ELSE One * (1 + ((i + j) % 2))

PixelOri(pattern, i, j) ==
  IF pattern = "flat" THEN 0
  ELSE IF pattern = "textured" /\ i = 3 /\ j = 1 THEN OriEdge
  ELSE OriCycle[((2 * i + j) % 4) + 1]

MkImage(r, c, pattern) ==
  [rows |-> r, cols |-> c,
   m |-> [i \in 1..r |-> [j \in 1..c |-> PixelMag(pattern, i, j)]],
   o |-> [i \in 1..r |-> [j \in 1..c |-> PixelOri(pattern, i, j)]]]

\* cv::Mat() : no data
NoData == [rows |-> 0, cols |-> 0, m |-> <<>>, o |-> <<>>]

Images ==
  {NoData} \cup
  {MkImage(r, c, pt) : r \in 1..MaxDim, c \in 1..MaxDim, pt \in {"flat", "textured"}}

\* the maps of a default-constructed cv::Mat
EmptyMat == [rows |-> 0, cols |-> 0, at |-> <<>>]

(***************************************************************************)
(* process                                                                 *)
(***************************************************************************)
\* the bin a pixel of raw orientation `raw` votes for (process_cell)
bin_index(c, raw) ==
  IF c.grad_type = GRADIENT_SIGNED THEN raw \div bin_width(c)
  ELSE LET orientation == IF raw >= 180 THEN raw - 180 ELSE raw
       IN  orientation \div bin_width(c)

\* the pixels of a cell, row by row
CellPixels(cs, i, j) ==
  [k \in 1..(cs * cs) |->
     <<(i * cs) + ((k - 1) \div cs) + 1, (j * cs) + ((k - 1) % cs) + 1>>]

RECURSIVE VotePixels(_, _, _, _, _)
VotePixels(c, m, o, px, hist) ==
  IF px = <<>> THEN [ok |-> TRUE, hist |-> hist]
  ELSE LET p == Head(px)
           b == bin_index(c, o[p[1]][p[2]])
       IN  IF b < 0 \/ b >= Len(hist)
           THEN [ok |-> FALSE, hist |-> <<>>]
           ELSE VotePixels(c, m, o, Tail(px),
                           [hist EXCEPT ![b + 1] = @ + m[p[1]][p[2]]])

\* cell (i, j) of the maps; cell_hist.at() throws std::out_of_range
process_cell(c, m, o, i, j) ==
  VotePixels(c, m, o, CellPixels(c.cellsize, i, j), [k \in 1..c.binning |-> 0])

clear_internals(grid) == <<>>

\* std::vector::resize
resize(v, n, fill) == [k \in 1..n |-> IF k <= Len(v) THEN v[k] ELSE fill]

RECURSIVE FillCells(_, _, _, _, _, _, _, _)
FillCells(c, m, o, grid, i, j, ny, nx) ==
  IF i >= ny THEN [ok |-> TRUE, grid |-> grid]
  ELSE IF j >= nx THEN FillCells(c, m, o, grid, i + 1, 0, ny, nx)
  ELSE LET g1 == IF j = 0 THEN [grid EXCEPT ![i + 1] = resize(@, nx, <<>>)]
                          ELSE grid
           h  == process_cell(c, m, o, i, j)
       IN  IF ~h.ok THEN [ok |-> FALSE, grid |-> g1]
           ELSE FillCells(c, m, o, [g1 EXCEPT ![i + 1][j + 1] = h.hist],
                          i, j + 1, ny, nx)

\* a rebuild that appends the new rows to the rows already held
rebuild_appending(c, grid, m, o, ny, nx) ==
  LET r == FillCells(c, m, o, resize(<<>>, ny, <<>>), 0, 0, ny, nx)
  IN  [ok |-> r.ok, grid |-> grid \o r.grid]

\* clear_internals(), _cell_hists.resize(_n_cells_y) and the cell loops
rebuild(c, grid, m, o, ny, nx) ==
  FillCells(c, m, o, resize(clear_internals(grid), ny, <<>>), 0, 0, ny, nx)

\* what a process call that fails validation leaves of the grid
rejected_clearing(grid) == clear_internals(grid)

rejected(grid) == grid

\* process(img) on the session s = [mag, ori, ny, nx, grid]
process(c, s, img) ==
  IF img.m = <<>>
  THEN [s EXCEPT !.grid = rejected(@)] @@ [outcome |-> "InvalidInput"]
  ELSE IF img.rows < c.blocksize \/ img.cols < c.blocksize
  THEN [s EXCEPT !.grid = rejected(@)] @@ [outcome |-> "InvalidInput"]
  ELSE LET ny == img.rows \div c.cellsize
           nx == img.cols \div c.cellsize
           r  == rebuild(c, s.grid, img.m, img.o, ny, nx)
       IN  [outcome |-> IF r.ok THEN "ok" ELSE "OutOfRange",
            mag |-> [rows |-> img.rows, cols |-> img.cols, at |-> img.m],
            ori |-> [rows |-> img.rows, cols |-> img.cols, at |-> img.o],
            ny |-> ny, nx |-> nx, grid |-> r.grid]

(***************************************************************************)
(* retrieve                                                                *)
(***************************************************************************)
\* the values of  for (cell = b; cell < b + n; ++cell)  on size_t
CellRange(b, n) == IF ULt(b, b + n) THEN [k \in 1..n |-> b + k - 1] ELSE <<>>

\* _cell_hists[cy][cx] names an element of the grid
InGrid(grid, cy, cx) ==
  /\ cy >= 0 /\ cy < Len(grid)
  /\ cx >= 0 /\ cx < Len(grid[cy + 1])

RECURSIVE ConcatCells(_, _, _, _)
ConcatCells(grid, ys, xs, k) ==
  IF k > Len(ys) * Len(xs) THEN <<>>
  ELSE LET cy == ys[((k - 1) \div Len(xs)) + 1]
           cx == xs[((k - 1) % Len(xs)) + 1]
       IN  grid[cy + 1][cx + 1] \o ConcatCells(grid, ys, xs, k + 1)

\* the block at cell (by, bx): its cells' histograms, row by row; reading a
\* cell outside the grid is undefined
block_at(c, grid, by, bx) ==
  LET ys == CellRange(by, n_cells_per_block(c))
      xs == CellRange(bx, n_cells_per_block(c))
  IN  IF \E a \in 1..Len(ys), b \in 1..Len(xs) : ~InGrid(grid, ys[a], xs[b])
      THEN [ub |-> TRUE, vec |-> <<>>]
      ELSE [ub |-> FALSE, vec |-> ConcatCells(grid, ys, xs, 1)]

RECURSIVE WriteCells(_, _, _, _, _, _)
WriteCells(grid, ys, xs, k, v, n) ==
  IF k > Len(ys) * Len(xs) THEN grid
  ELSE LET cy == ys[((k - 1) \div Len(xs)) + 1]
           cx == xs[((k - 1) % Len(xs)) + 1]
           h  == grid[cy + 1][cx + 1]
           w  == [i \in 1..Len(h) |-> v[n + i]]
       IN  WriteCells([grid EXCEPT ![cy + 1][cx + 1] = w],
                      ys, xs, k + 1, v, n + Len(h))

\* a block vector that aliases the cached cells: normalizing it in place
\* normalizes the cells
normalized_in_cells(c, grid, by, bx, v) ==
  WriteCells(grid, CellRange(by, n_cells_per_block(c)),
             CellRange(bx, n_cells_per_block(c)), 1, v, 0)

\* block_hist is a local vector filled with copies of the cells:
\* _block_norm(block_hist) leaves the grid as it is
grid_after_norm(c, grid, by, bx, v) == grid

RECURSIVE ScanX(_, _, _, _, _, _, _)
ScanX(c, grid, by, bx, xb, acc, fuel) ==
  IF ~ULe(bx, xb) THEN [st |-> "ok", hist |-> acc, grid |-> grid]
  ELSE IF fuel = 0 THEN [st |-> "NoReturn", hist |-> <<>>, grid |-> grid]
  ELSE LET b == block_at(c, grid, by, bx)
       IN  IF b.ub THEN [st |-> "UB", hist |-> <<>>, grid |-> grid]
           ELSE LET v == block_norm(c.block_norm, b.vec)
                IN  ScanX(c, grid_after_norm(c, grid, by, bx, v), by,
                          bx + stride_unit(c), xb, acc \o v, fuel - 1)

RECURSIVE ScanY(_, _, _, _, _, _, _, _)
ScanY(c, grid, by, x, xb, yb, acc, fuel) ==
  IF ~ULe(by, yb) THEN [st |-> "ok", hist |-> acc, grid |-> grid]
  ELSE IF fuel = 0 THEN [st |-> "NoReturn", hist |-> <<>>, grid |-> grid]
  ELSE LET row == ScanX(c, grid, by, x, xb, acc, Fuel)
       IN  IF row.st # "ok" THEN row
           ELSE ScanY(c, row.grid, by + stride_unit(c), x, xb, yb,
                      row.hist, fuel - 1)

\* retrieve(window) on the session s = [mag, ori, ny, nx, grid]
retrieve(c, s, window) ==
  IF ULt(window.height, c.blocksize) \/ ULt(window.width, c.blocksize)
  THEN [st |-> "WindowTooSmall", hist |-> <<>>, grid |-> s.grid]
  ELSE IF \/ window.x > s.mag.cols - window.width
          \/ window.y > s.mag.rows - window.height
  THEN [st |-> "WindowOutOfBounds", hist |-> <<>>, grid |-> s.grid]
  ELSE LET x == DivToInt(window.x, c.cellsize)
           y == DivToInt(window.y, c.cellsize)
           width == DivToInt(window.width, c.cellsize)
           height == DivToInt(window.height, c.cellsize)
       IN  ScanY(c, s.grid, y, x, x + width - n_cells_per_block(c),
                 y + height - n_cells_per_block(c), <<>>, Fuel)

(***************************************************************************)
(* The session state machine                                               *)
(***************************************************************************)
\* the configurations of the session specifications
SessionParams ==
  [blocksize : {2}, cellsize : {1, 2}, stride : {0, 1, 2},
   binning : {7}, grad_type : {GRADIENT_UNSIGNED, GRADIENT_SIGNED},
   block_norm : NormNames]

Accepted(p) == HOG_ctor(p) = {"ok"}

\* block_norm = L2hys is the constructors' default argument
Configs == {p \in SessionParams : Accepted(p) /\ p.block_norm = "L2hys"}

\* every normalization function, stride >= 1, unsigned gradients
NormConfigs ==
  {p \in SessionParams :
     Accepted(p) /\ p.stride >= 1 /\ p.grad_type = GRADIENT_UNSIGNED}

Windows ==
  [x : (0 - MaxNeg)..1, y : (0 - MaxNeg)..1,
   width : 1..MaxDim, height : 1..MaxDim]

NoWindow == [x |-> 0, y |-> 0, width |-> 0, height |-> 0]

\* _n_cells_y and _n_cells_x have no initializer; nothing reads them before
\* process assigns them
Indeterminate == "indeterminate"

NoProbe == [fn |-> "none"]

Session == [mag |-> mag, ori |-> ori, ny |-> n_cells_y, nx |-> n_cells_x,
            grid |-> cell_hists]

\* the session right after construction
Fresh == [mag |-> EmptyMat, ori |-> EmptyMat, ny |-> Indeterminate,
          nx |-> Indeterminate, grid |-> <<>>]

New == [op |-> "new", outcome |-> "ok", window |-> NoWindow, hist |-> <<>>]

InitSession(configs) ==
  /\ cfg \in configs
  /\ mag = Fresh.mag
  /\ ori = Fresh.ori
  /\ n_cells_y = Fresh.ny
  /\ n_cells_x = Fresh.nx
  /\ cell_hists = Fresh.grid
  /\ last = New
  /\ processed = "never"

Init == InitSession(Configs) /\ probe = NoProbe

\* processed: "never" until a process call succeeds, "yes" while the grid
\* is the result of a successful process call, "lost" after a process call
\* that threw while rebuilding the grid
ProcessCall(img) ==
  LET r == process(cfg, Session, img)
  IN  /\ mag' = r.mag
      /\ ori' = r.ori
      /\ n_cells_y' = r.ny
      /\ n_cells_x' = r.nx
      /\ cell_hists' = r.grid
      /\ last' = [op |-> "process", outcome |-> r.outcome,
                  window |-> NoWindow, hist |-> <<>>]
      /\ processed' = IF r.outcome = "ok" THEN "yes"
                      ELSE IF r.outcome = "InvalidInput" THEN processed
                      ELSE "lost"
      /\ cfg' = cfg

Process(img) == ProcessCall(img) /\ probe' = probe

\* an undefined read either ends the program or yields some vector
Retrieve(window) ==
  LET r == retrieve(cfg, Session, window)
  IN  /\ cell_hists' = r.grid
      /\ \E o \in (IF r.st = "UB" THEN {"Fault", "Garbage"} ELSE {r.st}) :
            last' = [op |-> "retrieve", outcome |-> o,
                     window |-> window, hist |-> r.hist]
      /\ UNCHANGED <<cfg, mag, ori, n_cells_y, n_cells_x, processed, probe>>

\* the caller takes what retrieve returned (the vector, or the exception)
\* and is ready for its next call
Idle == [op |-> "idle", outcome |-> "ok", window |-> NoWindow, hist |-> <<>>]

Consume ==
  /\ last.op = "retrieve"
  /\ last.outcome \notin {"Fault", "NoReturn"}
  /\ last' = Idle
  /\ UNCHANGED <<session, processed, probe>>

Next ==
  \/ \E img \in Images : last.op # "retrieve" /\ Process(img)
  \/ \E window \in Windows : last.op # "retrieve" /\ Retrieve(window)
  \/ Consume

Spec == Init /\ [][Next]_vars

\* the same session under every normalization function
InitNorm == InitSession(NormConfigs) /\ probe = NoProbe

SpecNorm == InitNorm /\ [][Next]_vars

(***************************************************************************)
(* The block scan of retrieve, on images whose every pixel votes for a bin *)
(* of the histogram ("ramp": the textured pattern without its edge pixel)  *)
(***************************************************************************)
ScanImages ==
  {MkImage(r, c, "ramp") : r \in 2..MaxScanDim, c \in 2..MaxScanDim}

ScanWindows ==
  [x : (0 - 1)..1, y : (0 - 1)..1,
   width : 1..MaxScanDim, height : 1..MaxScanDim]

InitScan == InitSession(NormConfigs) /\ probe = NoProbe

NextScan ==
  \/ \E img \in ScanImages : last.op # "retrieve" /\ Process(img)
  \/ \E window \in ScanWindows : last.op # "retrieve" /\ Retrieve(window)
  \/ Consume

SpecScan == InitScan /\ [][NextScan]_vars

(***************************************************************************)
(* process(A), process(B), process(A) on one session                       *)
(***************************************************************************)
InitABA ==
  /\ InitSession(Configs)
  /\ \E a \in Images, b \in Images :
        probe = [fn |-> "aba", A |-> a, B |-> b, step |-> 0,
                 okB |-> FALSE, alone |-> Fresh @@ [outcome |-> "none"]]

\* alone: the session as process(A) left it when it was the only call
ProcessStep(img, k) ==
  /\ probe.step = k - 1
  /\ ProcessCall(img)
  /\ probe' = [probe EXCEPT
                 !.step = k,
                 !.okB = IF k = 2 THEN last'.outcome = "ok" ELSE @,
                 !.alone = IF k = 1
                           THEN [mag |-> mag', ori |-> ori', ny |-> n_cells_y',
                                 nx |-> n_cells_x', grid |-> cell_hists',
                                 outcome |-> last'.outcome]
                           ELSE @]

NextABA ==
  \/ ProcessStep(probe.A, 1)
  \/ ProcessStep(probe.B, 2)
  \/ ProcessStep(probe.A, 3)

SpecABA == InitABA /\ [][NextABA]_vars

(***************************************************************************)
(* Construction, for every argument tuple                                  *)
(***************************************************************************)
CtorParams ==
  [blocksize : 0..MaxBlock, cellsize : 0..MaxCell, stride : 0..MaxStride,
   binning : 0..MaxCtorBin, grad_type : {0, 90, GRADIENT_UNSIGNED, GRADIENT_SIGNED},
   block_norm : {"L2hys"}]

InitPure ==
  /\ cfg = CHOOSE c \in Configs : TRUE
  /\ mag = Fresh.mag
  /\ ori = Fresh.ori
  /\ n_cells_y = Fresh.ny
  /\ n_cells_x = Fresh.nx
  /\ cell_hists = Fresh.grid
  /\ last = New
  /\ processed = "never"

InitCtor ==
  /\ InitPure
  /\ \E p \in CtorParams : probe = [fn |-> "ctor", args |-> p, out |-> "pending"]

Construct ==
  /\ probe.fn = "ctor"
  /\ probe.out = "pending"
  /\ \E o \in HOG_ctor(probe.args) : probe' = [probe EXCEPT !.out = o]
  /\ UNCHANGED <<session, last, processed>>

SpecCtor == InitCtor /\ [][Construct]_vars

(***************************************************************************)
(* The bin of a pixel, for every accepted bin count and raw orientation    *)
(***************************************************************************)
RawOrientations == 0..(GRADIENT_SIGNED - 1)

BinParams ==
  {p \in [blocksize : {2}, cellsize : {1}, stride : {1}, binning : 2..MaxBin,
          grad_type : {GRADIENT_UNSIGNED, GRADIENT_SIGNED},
          block_norm : {"L2hys"}] : Accepted(p)}

InitBin ==
  /\ InitPure
  /\ \E p \in BinParams, raw \in RawOrientations :
        probe = [fn |-> "bin", args |-> p, raw |-> raw, done |-> FALSE, out |-> 0]

\* cell_hist.at(index) of process_cell for one pixel
Vote ==
  /\ probe.fn = "bin"
  /\ ~probe.done
  /\ probe' = [probe EXCEPT !.done = TRUE,
                             !.out = bin_index(probe.args, probe.raw)]
  /\ UNCHANGED <<session, last, processed>>

SpecBin == InitBin /\ [][Vote]_vars

(***************************************************************************)
(* Properties                                                              *)
(***************************************************************************)
Returned == last.op = "retrieve" /\ last.outcome = "ok"

\* hog_size as the batch driver computes it (integer division)
hog_size(c, window) ==
  LET cells_x_grid == c.blocksize \div c.cellsize
      hog_bins == c.binning * (cells_x_grid * cells_x_grid)
      w == ((window.width - c.blocksize) \div c.stride) + 1
      h == ((window.height - c.blocksize) \div c.stride) + 1
  IN  hog_bins * (w * h)

\* C1: whenever retrieve returns a vector (for a window it accepted, on a
\* processed session, stride >= 1 so that the closed form is defined), the
\* vector's length is binning * (blocksize/cellsize)^2 *
\* ((height - blocksize)/stride + 1) * ((width - blocksize)/stride + 1).
C1_LengthIsClosedForm ==
  (Returned /\ processed = "yes" /\ cfg.stride >= 1)
    => Len(last.hist) = hog_size(cfg, last.window)

\* C2: on a processed session retrieve fails with WindowTooSmall exactly
\* when the window is lower or narrower than a block, otherwise with
\* WindowOutOfBounds exactly when x + width > map width or y + height > map
\* height, and returns a descriptor in every other case; a failing call
\* returns no vector.
C2_RetrieveOutcomes ==
  (last.op = "retrieve" /\ processed = "yes") =>
    LET w == last.window
        expected ==
          IF w.height < cfg.blocksize \/ w.width < cfg.blocksize
          THEN "WindowTooSmall"
          ELSE IF w.x + w.width > mag.cols \/ w.y + w.height > mag.rows
          THEN "WindowOutOfBounds"
          ELSE "ok"
    IN  /\ last.outcome = expected
        /\ last.outcome # "ok" => last.hist = <<>>

\* C3: a retrieve call that no successful process call precedes ends in the
\* NotProcessed error, and retrieve returns a vector only on a processed
\* session.
C3_RetrieveNeedsProcess ==
  last.op = "retrieve" =>
    /\ processed = "never" => last.outcome = "NotProcessed"
    /\ last.outcome = "ok" => processed = "yes"

\* the constraints on the constructor's arguments
ValidParams(p) ==
  /\ p.blocksize >= 2
  /\ p.cellsize >= 1
  /\ p.binning >= 2
  /\ p.grad_type \in {GRADIENT_UNSIGNED, GRADIENT_SIGNED}
  /\ p.blocksize % p.cellsize = 0
  /\ p.stride % p.cellsize = 0

\* C4: construction ends in ConfigInvalid for every argument tuple that
\* violates a constraint (cellsize = 0 and binning = 0 included), and
\* succeeds for every other tuple.
C4_CtorValidates ==
  (probe.fn = "ctor" /\ probe.out # "pending") =>
    probe.out = IF ValidParams(probe.args) THEN "ok" ELSE "ConfigInvalid"

\* C5 as stated: after a process call that fails validation the session is
\* unprocessed and its grid is empty.
C5_FailedProcessClears ==
  (last.op = "process" /\ last.outcome = "InvalidInput") =>
    (processed # "yes" /\ cell_hists = <<>>)

\* C5 as amended: a process call that fails validation changes nothing:
\* the grid, the grid dimensions and the maps are those of before the call,
\* and a processed session stays processed.
C5_FailedValidationKeepsSession ==
  [][(last'.op = "process" /\ last'.outcome = "InvalidInput")
       => UNCHANGED <<session, processed>>]_vars

C5_Witness ==
  /\ last.op = "process" /\ last.outcome = "InvalidInput"
  /\ processed = "yes" /\ cell_hists # <<>>

\* C6: retrieve is a pure read: no retrieve call, whatever its outcome,
\* changes the grid, the maps or the grid dimensions, and the same call
\* made again returns the same vector.
C6_RetrieveIsPureRead ==
  [][last'.op = "retrieve" =>
       /\ UNCHANGED session
       /\ last'.outcome = "ok" =>
            retrieve(cfg', Session', last'.window).hist = last'.hist]_vars

\* a vector of overlapping, normalized blocks of a textured image
C6_Witness ==
  /\ Returned /\ processed = "yes"
  /\ cfg.stride < cfg.blocksize
  /\ cfg.block_norm # "none"
  /\ Len(last.hist) > block_hist_size(cfg)
  /\ \E i \in 1..Len(last.hist) : last.hist[i] > 0

FullWindow(m) == [x |-> 0, y |-> 0, width |-> m.cols, height |-> m.rows]

AloneSession == [mag |-> probe.alone.mag, ori |-> probe.alone.ori,
                 ny |-> probe.alone.ny, nx |-> probe.alone.nx,
                 grid |-> probe.alone.grid]

\* C7: for images A and B that process accepts, process(A), process(B),
\* process(A) leaves the maps, the grid dimensions and the grid that
\* process(A) alone left, and retrieve over the image returns the same.
C7_ProcessResets ==
  (probe.fn = "aba" /\ probe.step = 3 /\ probe.alone.outcome = "ok" /\ probe.okB) =>
    /\ last.outcome = "ok"
    /\ Session = AloneSession
    /\ retrieve(cfg, Session, FullWindow(mag)).hist
         = retrieve(cfg, AloneSession, FullWindow(mag)).hist

\* A and B textured, of different heights and widths
C7_Witness ==
  /\ probe.fn = "aba" /\ probe.step = 3
  /\ probe.alone.outcome = "ok" /\ probe.okB
  /\ probe.A.rows < probe.B.rows /\ probe.A.cols < probe.B.cols
  /\ probe.A.m[1][1] > 0 /\ probe.B.m[1][1] > 0

Zeros(n) == [i \in 1..n |-> 0]

ZeroMap(m) == \A i \in 1..m.rows, j \in 1..m.cols : m.at[i][j] = 0

\* C8: the configured normalization function maps every all-zero vector to
\* the all-zero vector of the same length, and for an image whose magnitude
\* map is zero everywhere retrieve returns an all-zero vector (of the
\* closed-form length, for a window inside the image).
C8_ZeroStaysZero ==
  (Returned /\ processed = "yes" /\ ZeroMap(mag)) =>
    /\ \A n \in 0..block_hist_size(cfg) :
          block_norm(cfg.block_norm, Zeros(n)) = Zeros(n)
    /\ \A i \in 1..Len(last.hist) : last.hist[i] = 0
    /\ (last.window.x >= 0 /\ last.window.y >= 0)
          => Len(last.hist) = hog_size(cfg, last.window)

C8_Witness ==
  /\ Returned /\ processed = "yes" /\ ZeroMap(mag)
  /\ cfg.block_norm = "L1sqrt"
  /\ Len(last.hist) > block_hist_size(cfg)

\* C9: the bin a pixel votes for is floor(effective orientation /
\* (gradient range / bin count)), with the quotient taken in the reals,
\* and is a position of the histogram.
C9_BinIndexFormula ==
  (probe.fn = "bin" /\ probe.done) =>
    LET c == probe.args
        effective == IF c.grad_type = GRADIENT_SIGNED THEN probe.raw
                     ELSE IF probe.raw >= 180 THEN probe.raw - 180
                     ELSE probe.raw
    IN  /\ probe.out = (effective * c.binning) \div c.grad_type
        /\ 0 <= probe.out /\ probe.out < c.binning

\* C10: on a processed session retrieve returns or throws for every window
\* that passes its checks (shown for the windows of non-negative origin).
C10_RetrieveTerminates ==
  (last.op = "retrieve" /\ processed = "yes"
     /\ last.window.x >= 0 /\ last.window.y >= 0)
    => last.outcome # "NoReturn"

\* the grid holds floor(rows/cellsize) rows of floor(cols/cellsize)
\* histograms of bin_count entries each
GridIsWhole ==
  /\ Len(cell_hists) = mag.rows \div cfg.cellsize
  /\ \A i \in 1..Len(cell_hists) :
       /\ Len(cell_hists[i]) = mag.cols \div cfg.cellsize
       /\ \A j \in 1..Len(cell_hists[i]) : Len(cell_hists[i][j]) = cfg.binning

PassedChecks ==
  /\ last.op = "retrieve"
  /\ last.outcome \notin {"WindowTooSmall", "WindowOutOfBounds"}

\* C11: a retrieve call whose window passes both checks reads only cell
\* histograms that exist (no read outside the grid, whose outcome is a fault
\* or an arbitrary vector), and the grid it reads is whole; for every window,
\* those of negative origin included, after any sequence of calls.
C11_RetrieveReadsInGrid ==
  PassedChecks => (last.outcome \notin {"Fault", "Garbage"} /\ GridIsWhole)

RECURSIVE Flat(_)
Flat(seqs) == IF seqs = <<>> THEN <<>> ELSE Head(seqs) \o Flat(Tail(seqs))

\* start + k * (stride/cellsize), k >= 0, up to and including the last
\* position <= start + extent - cells_per_block
ScanPositions(c, start, extent) ==
  LET n == c.blocksize \div c.cellsize
      step == c.stride \div c.cellsize
  IN  IF extent < n THEN <<>>
      ELSE [k \in 1..(((extent - n) \div step) + 1) |-> start + (k - 1) * step]

\* the cells_per_block x cells_per_block histograms of the block at cell
\* (by, bx), in row-major cell order
CellsInOrder(c, grid, by, bx) ==
  LET n == c.blocksize \div c.cellsize
  IN  [i \in 1..(n * n) |->
         grid[by + ((i - 1) \div n) + 1][bx + ((i - 1) % n) + 1]]

\* the blocks of the window in row-major order (y outer, x inner), each
\* normalized alone, concatenated
BlocksInOrder(c, grid, window) ==
  LET ys == ScanPositions(c, window.y \div c.cellsize,
                          window.height \div c.cellsize)
      xs == ScanPositions(c, window.x \div c.cellsize,
                          window.width \div c.cellsize)
  IN  Flat([k \in 1..(Len(ys) * Len(xs)) |->
              block_norm(c.block_norm,
                         Flat(CellsInOrder(c, grid,
                                           ys[((k - 1) \div Len(xs)) + 1],
                                           xs[((k - 1) % Len(xs)) + 1])))])

\* C12: the vector retrieve returns for a window inside the image is the
\* concatenation, y outer and x inner, of the blocks at the positions
\* start + k * (stride/cellsize) up to and including the last one
\* <= start + extent - cells_per_block, each block being its cells'
\* histograms in row-major cell order, normalized alone.
C12_ScanOrder ==
  (Returned /\ last.window.x >= 0 /\ last.window.y >= 0)
    => last.hist = BlocksInOrder(cfg, cell_hists, last.window)

\* retrieve returned four different blocks: two positions on each axis
C12_Witness ==
  /\ Returned
  /\ last.window.x >= 0 /\ last.window.y >= 0
  /\ cfg.cellsize = 1 /\ cfg.stride = 1 /\ cfg.block_norm = "L2norm"
  /\ last.window.width = 3 /\ last.window.height = 3
  /\ Len(last.hist) = 4 * block_hist_size(cfg)
  /\ LET b(k) == SubSeq(last.hist, (k - 1) * block_hist_size(cfg) + 1,
                        k * block_hist_size(cfg))
     IN  \A k, l \in 1..4 : k # l => b(k) # b(l)

(***************************************************************************)
(* The batch driver (main)                                                 *)
(***************************************************************************)
\* HOG hog(blocksize, cellsize, stride, binning, HOG::GRADIENT_UNSIGNED) with
\* blocksize = 32, cellsize = 16, stride = 16, binning = 9, in units of
\* cellsize
DriverConfig ==
  [blocksize |-> 2, cellsize |-> 1, stride |-> 1, binning |-> MaxBin,
   grad_type |-> GRADIENT_UNSIGNED, block_norm |-> "L2hys"]

\* the regular files of the input directory: what cv::imread makes of each
\* (no data for a file that is no image)
FileLists == {<<a>> : a \in Images} \cup {<<a, b>> : a, b \in Images}

\* cv::resize(image, image_crop, cv::Size(crop_width, crop_height)); the
\* driver reads nothing of image_crop but its size
cv_resize(image) ==
  IF image.m = <<>> THEN [ok |-> FALSE, rows |-> 0, cols |-> 0]
  ELSE [ok |-> TRUE, rows |-> crop_height, cols |-> crop_width]

NoCrop == [ok |-> FALSE, rows |-> 0, cols |-> 0]

InitDriver ==
  /\ cfg = DriverConfig
  /\ Accepted(cfg)
  /\ mag = Fresh.mag
  /\ ori = Fresh.ori
  /\ n_cells_y = Fresh.ny
  /\ n_cells_x = Fresh.nx
  /\ cell_hists = Fresh.grid
  /\ last = New
  /\ processed = "never"
  /\ \E fs \in FileLists :
       probe = [fn |-> "main", filenames |-> fs, i |-> 0, pc |-> "load",
                image |-> NoData, image_crop |-> NoCrop, hist |-> <<>>,
                stored |-> 0, exit |-> "running"]

\* an exception nobody catches ends the program
Abort(why) == [probe EXCEPT !.pc = "ended", !.exit = why]

\* lines 67-72
DriverLoad ==
  /\ probe.fn = "main" /\ probe.pc = "load"
  /\ IF probe.i >= Len(probe.filenames)
     THEN probe' = [probe EXCEPT !.pc = "ended", !.exit = "done"]
     ELSE LET image == probe.filenames[probe.i + 1]
              crop == cv_resize(image)
          IN  probe' = IF crop.ok
                       THEN [probe EXCEPT !.pc = "process", !.image = image,
                                          !.image_crop = crop]
                       ELSE Abort("ResizeError")
  /\ UNCHANGED <<session, last, processed>>

\* line 77: hog.process(image)
DriverProcess ==
  /\ probe.fn = "main" /\ probe.pc = "process"
  /\ ProcessCall(probe.image)
  /\ probe' = IF last'.outcome = "ok" THEN [probe EXCEPT !.pc = "retrieve"]
              ELSE Abort(last'.outcome)

\* line 78: hog.retrieve(cv::Rect(0, 0, image_crop.cols, image_crop.rows))
DriverRetrieve ==
  /\ probe.fn = "main" /\ probe.pc = "retrieve"
  /\ LET window == [x |-> 0, y |-> 0, width |-> probe.image_crop.cols,
                    height |-> probe.image_crop.rows]
         r == retrieve(cfg, Session, window)
     IN  /\ cell_hists' = r.grid
         /\ \E o \in (IF r.st = "UB" THEN {"Fault", "Garbage"} ELSE {r.st}) :
              /\ last' = [op |-> "retrieve", outcome |-> o,
                          window |-> window, hist |-> r.hist]
              /\ probe' = IF o \in {"ok", "Garbage"}
                          THEN [probe EXCEPT !.pc = "assert", !.hist = r.hist]
                          ELSE Abort(o)
  /\ UNCHANGED <<cfg, mag, ori, n_cells_y, n_cells_x, processed>>

\* line 80: assert(hist.size() == hog_size)
DriverAssert ==
  /\ probe.fn = "main" /\ probe.pc = "assert"
  /\ probe' = IF Len(probe.hist) =
                   hog_size(cfg, [x |-> 0, y |-> 0, width |-> crop_width,
                                  height |-> crop_height])
              THEN [probe EXCEPT !.pc = "store"]
              ELSE Abort("AssertFailed")
  /\ UNCHANGED <<session, last, processed>>

\* lines 82-87: the row of hog_features is filled, next file
DriverStore ==
  /\ probe.fn = "main" /\ probe.pc = "store"
  /\ probe' = [probe EXCEPT !.pc = "load", !.i = @ + 1, !.stored = @ + 1]
  /\ UNCHANGED <<session, last, processed>>

NextDriver ==
  \/ DriverLoad
  \/ DriverProcess
  \/ DriverRetrieve
  \/ DriverAssert
  \/ DriverStore

SpecDriver == InitDriver /\ [][NextDriver]_vars

\* C13: for every file the driver processes the image resized to the crop
\* size, so the maps retrieve reads have the crop size, retrieve never fails
\* with a window error, and the assertion on the descriptor's length holds.
C13_DriverProcessesCrop ==
  probe.fn = "main" =>
    /\ probe.pc \in {"retrieve", "assert", "store"} =>
         (mag.rows = crop_height /\ mag.cols = crop_width)
    /\ probe.exit \notin {"WindowTooSmall", "WindowOutOfBounds"}
    /\ probe.exit # "AssertFailed"

====
